---- MODULE Spec2Model ----
(***************************************************************************)
(* Model of src/oura/auth.py: the three classes OuraOAuth2Client,          *)
(* OAuthRequestHandler and PersonalRequestHandler.                         *)
(*                                                                         *)
(* The HTTP server and the OAuth2Session / requests libraries are the      *)
(* environment.  One HTTP exchange (session.request, requests.get/post,    *)
(* the POST made by session.refresh_token) is one step whose outcome is    *)
(* chosen by the environment: a response with a status code, or a raised   *)
(* exception.  The constructor of OAuthRequestHandler builds a token with  *)
(* no expiry (lines 74-78), and the model gives tokens no expiry: the      *)
(* only refresh it contains is the one make_request starts on a 401.       *)
(*                                                                         *)
(* Spec, SpecPersonal and SpecAuthorize exercise one class each and leave  *)
(* the variables of the other two untouched; SpecRevoke puts the two       *)
(* request handlers side by side.                                          *)
(***************************************************************************)
EXTENDS Integers, Sequences, FiniteSets, TLC

\* ---- bounds of the model ----
MaxRefresh == 2      \* successful refreshes the token endpoint grants
MaxCalls == 3        \* calls counted on the PersonalRequestHandler
MaxScopeLen == 2     \* longest scope list passed to authorize_endpoint

\* ---- values ----
NoToken == 0         \* an absent token (access_token=None / token = {})
InitTokens == {NoToken, 1}    \* access_token argument: absent, or token 1
InitRefreshTokens == {1}      \* refresh_token argument
Callers == {"c1", "c2"}       \* callers sharing one OAuthRequestHandler
Statuses == {200, 401, 500}   \* HTTP status codes the server answers with
Methods == {"GET", "POST", "PUT", "DELETE", "post"}
Urls == {"/v2/a", "/v2/b"}
OAuthMethods == {"GET", "POST"}   \* methods passed to the OAuth handler
OAuthUrls == {"/v2/a"}            \* urls passed to the OAuth handler
PersonalTokens == {1, 2}          \* personal access tokens to construct with
ClientIds == {"id1", "id2"}
ScopeNames == {"email", "daily", "custom"}
RedirectUris == {"https://a/cb", "https://b/cb"}
TOKEN_BASE_URL == "https://api.ouraring.com/oauth/token"
TOKEN_REVOKE_URL == "https://api.ouraring.com/oauth/revoke"
AUTHORIZE_BASE_URL == "https://cloud.ouraring.com/oauth/authorize"
SCOPE == <<"email", "personal", "daily", "heartrate", "workout", "tag", "session", "resilience">>

VARIABLES
  \* OAuthRequestHandler
  token,            \* self._session.token: [access_token, refresh_token]
  given,            \* the token built from the constructor's arguments
  refresh_callback, \* whether a token_updater was supplied
  issued,           \* tokens the token endpoint has granted so far
  updater_calls,    \* the tokens the token_updater was invoked with, in order
  pc,               \* per caller: position inside the current call
  call,             \* per caller: the call in progress / last finished
  log,              \* per caller: what the current call did, in order
  result,           \* per caller: what the last finished call gave its caller
  \* PersonalRequestHandler
  personal_access_token,
  p_given,          \* the token passed to the constructor
  p_call,           \* the last call made
  p_sent,           \* the HTTP requests the last call issued
  p_result,         \* what the last call returned or raised
  p_calls,          \* number of calls so far
  p_total,          \* number of HTTP requests issued so far
  \* OuraOAuth2Client
  client_id,
  session_scope,        \* self.session.scope
  session_redirect_uri, \* self.session.redirect_uri
  a_call,               \* arguments of the last authorize_endpoint call
  a_url                 \* the URL it returned

oauthVars == <<token, given, refresh_callback, issued, updater_calls, pc, call, log, result>>
personalVars == <<personal_access_token, p_given, p_call, p_sent, p_result, p_calls, p_total>>
authVars == <<client_id, session_scope, session_redirect_uri, a_call, a_url>>
vars == <<oauthVars, personalVars, authVars>>

None == "None"

\* ------------------------------------------------------------------------
\* Environment: outcomes of one HTTP exchange
\* ------------------------------------------------------------------------
Response(s) == [kind |-> "response", status_code |-> s]
Raised(e) == [kind |-> "raise", error |-> e]
Outcomes == {Response(s) : s \in Statuses} \cup {Raised("transport")}

\* ------------------------------------------------------------------------
\* OAuthRequestHandler
\* ------------------------------------------------------------------------
\* __init__: the token holds only the fields that were given
InitToken(access_token, refresh_token) ==
  [access_token |-> access_token, refresh_token |-> refresh_token]

\* self._session.request(method, url): the session attaches its current
\* access token; the event records what was sent and what came back
RequestEvent(method, url, out) ==
  [kind |-> "request", method |-> method, url |-> url,
   token |-> token.access_token, outcome |-> out]

OAuthInit ==
  /\ refresh_callback \in BOOLEAN
  /\ \E a \in InitTokens, r \in InitRefreshTokens : token = InitToken(a, r)
  /\ given = token
  /\ issued = 0
  /\ updater_calls = <<>>
  /\ pc = [c \in Callers |-> "idle"]
  /\ call = [c \in Callers |-> [op |-> None, url |-> None, method |-> None]]
  /\ log = [c \in Callers |-> <<>>]
  /\ result = [c \in Callers |-> [kind |-> None]]

AfterFirstAnyError(out) ==
  IF out.kind = "response" /\ out.status_code >= 400 THEN "refresh" ELSE "done"

\* where make_request goes after its first response (lines 89-92)
AfterFirst(out) ==
  IF out.kind = "response" /\ out.status_code = 401 THEN "refresh" ELSE "done"

\* make_request, lines 88-89 (and 92 when the status is not 401); a raised
\* exception leaves the method at once
MakeRequestFirst(c, op, url, method, out) ==
  /\ pc[c] \in {"idle", "done"}
  /\ call' = [call EXCEPT ![c] = [op |-> op, url |-> url, method |-> method]]
  /\ log' = [log EXCEPT ![c] = <<RequestEvent(method, url, out)>>]
  /\ pc' = [pc EXCEPT ![c] = AfterFirst(out)]
  /\ result' = [result EXCEPT ![c] = IF AfterFirst(out) = "done" THEN out ELSE [kind |-> None]]
  /\ UNCHANGED <<token, given, refresh_callback, issued, updater_calls>>

OAuth_make_request(c) ==
  \E url \in OAuthUrls, method \in OAuthMethods, out \in Outcomes :
    MakeRequestFirst(c, "make_request", url, method, out)

OAuth_make_request_v2_Direct(c) ==
  \E url \in OAuthUrls, method \in OAuthMethods, out \in Outcomes :
    /\ pc[c] \in {"idle", "done"}
    /\ call' = [call EXCEPT ![c] = [op |-> "make_request_v2", url |-> url, method |-> method]]
    /\ log' = [log EXCEPT ![c] = <<RequestEvent(method, url, out)>>]
    /\ pc' = [pc EXCEPT ![c] = "done"]
    /\ result' = [result EXCEPT ![c] = out]
    /\ UNCHANGED <<token, given, refresh_callback, issued, updater_calls>>

\* make_request_v2 only delegates (line 95)
OAuth_make_request_v2(c) ==
  \E url \in OAuthUrls, method \in OAuthMethods, out \in Outcomes :
    MakeRequestFirst(c, "make_request_v2", url, method, out)

\* the token pair the token endpoint grants next: never one it granted before
NewToken == [access_token |-> issued + 2, refresh_token |-> issued + 2]

RefreshResultShared(c) ==
  IF token.access_token # log[c][1].token THEN token ELSE NewToken

\* what the POST of caller c's session.refresh_token obtains (line 98):
\* always a new grant, whether or not another caller refreshed meanwhile
RefreshResult(c) == NewToken

TokenNotStored(tok) == token

\* session.refresh_token replaces the session's token in place (line 98)
TokenAfterRefresh(tok) == tok

RefreshEventsStale(tok) ==
  <<[kind |-> "refresh", url |-> TOKEN_BASE_URL, ok |-> TRUE, token |-> tok]>>
  \o (IF refresh_callback THEN <<[kind |-> "callback", token |-> token]>> ELSE <<>>)

\* the events of a successful _refresh_token: the POST to the token
\* endpoint, then the token_updater when one was supplied (lines 103-104)
RefreshEvents(tok) ==
  <<[kind |-> "refresh", url |-> TOKEN_BASE_URL, ok |-> TRUE, token |-> tok]>>
  \o (IF refresh_callback THEN <<[kind |-> "callback", token |-> tok]>> ELSE <<>>)

UpdaterCallsStale(tok) ==
  IF refresh_callback THEN Append(updater_calls, token) ELSE updater_calls

\* the token_updater's history: invoked with the token only when one was
\* supplied (lines 103-104)
UpdaterCalls(tok) ==
  IF refresh_callback THEN Append(updater_calls, tok) ELSE updater_calls

\* _refresh_token, lines 97-106, the refresh succeeding
RefreshOk(c) ==
  /\ pc[c] = "refresh"
  /\ issued < MaxRefresh
  /\ token' = TokenAfterRefresh(RefreshResult(c))
  /\ issued' = issued + 1
  /\ log' = [log EXCEPT ![c] = @ \o RefreshEvents(RefreshResult(c))]
  /\ updater_calls' = UpdaterCalls(RefreshResult(c))
  /\ pc' = [pc EXCEPT ![c] = "retry"]
  /\ UNCHANGED <<given, refresh_callback, call, result>>

AfterRefreshErrorSwallowed == "retry"

\* what make_request does when session.refresh_token raises: nothing
\* catches it, so the call ends with the error (lines 90, 98)
AfterRefreshError == "done"

\* _refresh_token, line 98 raising: the session token is not replaced and
\* line 103 is not reached
RefreshFail(c) ==
  /\ pc[c] = "refresh"
  /\ log' = [log EXCEPT ![c] = Append(@, [kind |-> "refresh", url |-> TOKEN_BASE_URL, ok |-> FALSE, token |-> token])]
  /\ pc' = [pc EXCEPT ![c] = AfterRefreshError]
  /\ result' = [result EXCEPT ![c] = IF AfterRefreshError = "done" THEN Raised("refresh") ELSE @]
  /\ UNCHANGED <<token, given, refresh_callback, issued, updater_calls, call>>

AfterRetryLoop(out) ==
  IF out.kind = "response" /\ out.status_code = 401 THEN "refresh" ELSE "done"

\* where make_request goes after the retried request (lines 91-92): out
\* of the method, whatever the response
AfterRetry(out) == "done"

\* make_request, lines 91-92: the same method and url once more
Retry(c) ==
  /\ pc[c] = "retry"
  /\ \E out \in Outcomes :
       /\ log' = [log EXCEPT ![c] = Append(@, RequestEvent(call[c].method, call[c].url, out))]
       /\ pc' = [pc EXCEPT ![c] = AfterRetry(out)]
       /\ result' = [result EXCEPT ![c] = IF AfterRetry(out) = "done" THEN out ELSE @]
  /\ UNCHANGED <<token, given, refresh_callback, issued, updater_calls, call>>

AfterRevokeRefreshing(out) ==
  IF out.kind = "response" /\ out.status_code = 401 THEN "refresh" ELSE "done"

\* where revoke_token goes after its response (line 109): out of the
\* method, whatever the response
AfterRevoke(out) == "done"

\* revoke_token, lines 108-109
OAuth_revoke_token(c) ==
  /\ pc[c] \in {"idle", "done"}
  /\ \E out \in Outcomes :
       /\ call' = [call EXCEPT ![c] = [op |-> "revoke_token", url |-> TOKEN_REVOKE_URL, method |-> "POST"]]
       /\ log' = [log EXCEPT ![c] = <<RequestEvent("POST", TOKEN_REVOKE_URL, out)>>]
       /\ pc' = [pc EXCEPT ![c] = AfterRevoke(out)]
       /\ result' = [result EXCEPT ![c] = IF AfterRevoke(out) = "done" THEN out ELSE [kind |-> None]]
  /\ UNCHANGED <<token, given, refresh_callback, issued, updater_calls>>

\* ------------------------------------------------------------------------
\* PersonalRequestHandler
\* ------------------------------------------------------------------------
\* __init__, lines 115-116
PersonalInit ==
  /\ personal_access_token \in PersonalTokens
  /\ p_given = personal_access_token
  /\ p_call = [op |-> None, url |-> None, method |-> None]
  /\ p_sent = <<>>
  /\ p_result = [kind |-> None]
  /\ p_calls = 0
  /\ p_total = 0

RequestsMethodAsGiven(method) == method

\* lines 119 and 123: requests.post if method == "POST" else requests.get
RequestsMethod(method) == IF method = "POST" THEN "POST" ELSE "GET"

\* f"Bearer {token}", line 124
Bearer(tok) == <<"Bearer", " ", tok>>

\* line 120: requests_method(url, params={"access_token": token})
QueryStyleRequest(url, method) ==
  [verb |-> RequestsMethod(method), url |-> url,
   params |-> {<<"access_token", personal_access_token>>},
   headers |-> {}]

BearerStyleAsQuery(url, method) == QueryStyleRequest(url, method)

\* lines 124-125: requests_method(url, headers={"Authorization": ...})
BearerStyleRequest(url, method) ==
  [verb |-> RequestsMethod(method), url |-> url,
   params |-> {},
   headers |-> {<<"Authorization", Bearer(personal_access_token)>>}]

PersonalSentRetrying(req, out) ==
  IF out.kind = "response" /\ out.status_code = 401 THEN <<req, req>> ELSE <<req>>

\* the HTTP requests one call issues: the one request, whatever comes back
PersonalSent(req, out) == <<req>>

\* the token held after a call: no method assigns self.personal_access_token
PersonalTokenAfter(out) == personal_access_token

\* one call of the handler: issue req, hand its outcome to the caller
PersonalCall(op, url, method, req, out) ==
  /\ p_calls < MaxCalls
  /\ p_call' = [op |-> op, url |-> url, method |-> method]
  /\ p_sent' = PersonalSent(req, out)
  /\ p_result' = out
  /\ p_calls' = p_calls + 1
  /\ p_total' = p_total + Len(PersonalSent(req, out))
  /\ personal_access_token' = PersonalTokenAfter(out)
  /\ UNCHANGED p_given

\* make_request, lines 118-120
Personal_make_request ==
  \E url \in Urls, method \in Methods, out \in Outcomes :
    PersonalCall("make_request", url, method, QueryStyleRequest(url, method), out)

\* make_request_v2, lines 122-125
Personal_make_request_v2 ==
  \E url \in Urls, method \in Methods, out \in Outcomes :
    PersonalCall("make_request_v2", url, method, BearerStyleRequest(url, method), out)

\* revoke_token, lines 127-128: make_request_v2(TOKEN_REVOKE_URL, "POST")
Personal_revoke_token ==
  \E out \in Outcomes :
    PersonalCall("revoke_token", TOKEN_REVOKE_URL, "POST",
                 BearerStyleRequest(TOKEN_REVOKE_URL, "POST"), out)

\* ------------------------------------------------------------------------
\* OuraOAuth2Client
\* ------------------------------------------------------------------------
\* a scope argument: left out (scope=None), or a list of scope values
Omitted == [given |-> FALSE]
Given(l) == [given |-> TRUE, value |-> l]

RECURSIVE SeqsUpTo(_, _)
SeqsUpTo(S, n) ==
  IF n = 0 THEN {<<>>}
  ELSE SeqsUpTo(S, n - 1) \cup {Append(l, x) : l \in {m \in SeqsUpTo(S, n - 1) : Len(m) = n - 1}, x \in S}

ScopeArgs == {Omitted} \cup {Given(l) : l \in SeqsUpTo(ScopeNames, MaxScopeLen)}
RedirectArgs == {None, ""} \cup RedirectUris
ExtraArgs == {<<>>, <<"prompt">>}

\* __init__, lines 24-30: a session with no scope and no redirect uri yet
AuthInit ==
  /\ client_id \in ClientIds
  /\ session_scope = <<>>
  /\ session_redirect_uri = None
  /\ a_call = [op |-> None]
  /\ a_url = [base |-> None]

\* Python truth of a scope argument: None and the empty list are false
ScopeTruthy(scope) == scope.given /\ scope.value # <<>>
\* Python truth of a redirect_uri argument: None and "" are false
RedirectTruthy(uri) == uri \notin {None, ""}

ScopeSticky(scope) ==
  IF ScopeTruthy(scope) THEN scope.value
  ELSE IF session_scope # <<>> THEN session_scope ELSE SCOPE

\* line 41: scope or self.SCOPE
ScopeOrDefault(scope) == IF ScopeTruthy(scope) THEN scope.value ELSE SCOPE

RedirectNotSticky(uri) == IF RedirectTruthy(uri) THEN uri ELSE None

\* lines 42-43: the session's redirect uri is assigned only when one is given
RedirectAfter(uri) == IF RedirectTruthy(uri) THEN uri ELSE session_redirect_uri

\* the scope list as it appears in the url: the values joined by spaces
RECURSIVE Join(_)
Join(l) ==
  IF Len(l) <= 1 THEN l ELSE <<l[1], " ">> \o Join(Tail(l))

\* line 44: session.authorization_url(AUTHORIZE_BASE_URL, **kwargs), the
\* url built from the session's client id, redirect uri (when set) and scope
AuthorizationUrl(cid, scope, uri, extra) ==
  [base |-> AUTHORIZE_BASE_URL,
   query |-> ("response_type" :> <<"code">>) @@ ("client_id" :> <<cid>>)
             @@ (IF uri # None THEN "redirect_uri" :> <<uri>> ELSE <<>>)
             @@ ("scope" :> Join(scope))
             @@ [k \in {extra[i] : i \in 1..Len(extra)} |-> <<"x">>]]

\* authorize_endpoint, lines 32-44
authorize_endpoint ==
  \E scope \in ScopeArgs, redirect_uri \in RedirectArgs, extra \in ExtraArgs :
    /\ a_call' = [op |-> "authorize_endpoint", scope |-> scope,
                  redirect_uri |-> redirect_uri, extra |-> extra]
    /\ session_scope' = ScopeOrDefault(scope)
    /\ session_redirect_uri' = RedirectAfter(redirect_uri)
    /\ a_url' = AuthorizationUrl(client_id, session_scope', session_redirect_uri', extra)
    /\ UNCHANGED client_id

\* ------------------------------------------------------------------------
\* Specifications
\* ------------------------------------------------------------------------
\* the handlers a specification does not exercise are left unconstructed
PersonalIdle ==
  /\ personal_access_token = NoToken
  /\ p_given = NoToken
  /\ p_call = [op |-> None, url |-> None, method |-> None]
  /\ p_sent = <<>>
  /\ p_result = [kind |-> None]
  /\ p_calls = 0
  /\ p_total = 0

AuthIdle ==
  /\ client_id = None
  /\ session_scope = <<>>
  /\ session_redirect_uri = None
  /\ a_call = [op |-> None]
  /\ a_url = [base |-> None]

OAuthIdle ==
  /\ refresh_callback = FALSE
  /\ token = InitToken(NoToken, NoToken)
  /\ given = token
  /\ issued = 0
  /\ updater_calls = <<>>
  /\ pc = [c \in Callers |-> "idle"]
  /\ call = [c \in Callers |-> [op |-> None, url |-> None, method |-> None]]
  /\ log = [c \in Callers |-> <<>>]
  /\ result = [c \in Callers |-> [kind |-> None]]

Init == OAuthInit /\ PersonalIdle /\ AuthIdle
Next ==
  \E c \in Callers :
    \/ OAuth_make_request(c) /\ UNCHANGED <<personalVars, authVars>>
    \/ OAuth_make_request_v2(c) /\ UNCHANGED <<personalVars, authVars>>
    \/ RefreshOk(c) /\ UNCHANGED <<personalVars, authVars>>
    \/ RefreshFail(c) /\ UNCHANGED <<personalVars, authVars>>
    \/ Retry(c) /\ UNCHANGED <<personalVars, authVars>>
    \/ OAuth_revoke_token(c) /\ UNCHANGED <<personalVars, authVars>>
\* OAuthRequestHandler shared by the callers
Spec == Init /\ [][Next]_vars

\* PersonalRequestHandler
InitPersonal == OAuthIdle /\ PersonalInit /\ AuthIdle
NextPersonal ==
  \/ Personal_make_request /\ UNCHANGED <<oauthVars, authVars>>
  \/ Personal_make_request_v2 /\ UNCHANGED <<oauthVars, authVars>>
  \/ Personal_revoke_token /\ UNCHANGED <<oauthVars, authVars>>
SpecPersonal == InitPersonal /\ [][NextPersonal]_vars

\* OuraOAuth2Client
InitAuthorize == OAuthIdle /\ PersonalIdle /\ AuthInit
NextAuthorize == authorize_endpoint /\ UNCHANGED <<oauthVars, personalVars>>
SpecAuthorize == InitAuthorize /\ [][NextAuthorize]_vars

\* revoke_token of both handlers: the OAuth handler used by one caller, in
\* every state its calls can bring it to, next to a PersonalRequestHandler
InitRevoke == OAuthInit /\ PersonalInit /\ AuthIdle
NextRevoke ==
  \/ OAuth_make_request("c1") /\ UNCHANGED <<personalVars, authVars>>
  \/ OAuth_make_request_v2("c1") /\ UNCHANGED <<personalVars, authVars>>
  \/ RefreshOk("c1") /\ UNCHANGED <<personalVars, authVars>>
  \/ RefreshFail("c1") /\ UNCHANGED <<personalVars, authVars>>
  \/ Retry("c1") /\ UNCHANGED <<personalVars, authVars>>
  \/ OAuth_revoke_token("c1") /\ UNCHANGED <<personalVars, authVars>>
  \/ Personal_revoke_token /\ UNCHANGED <<oauthVars, authVars>>
SpecRevoke == InitRevoke /\ [][NextRevoke]_vars

\* ------------------------------------------------------------------------
\* Properties of OAuthRequestHandler
\* ------------------------------------------------------------------------
RECURSIVE Count(_, _)
Count(L, kind) ==
  IF L = <<>> THEN 0
  ELSE (IF L[Len(L)].kind = kind THEN 1 ELSE 0) + Count(SubSeq(L, 1, Len(L) - 1), kind)

IsMakeRequest(c) == call[c].op \in {"make_request", "make_request_v2"}
Is401(out) == out.kind = "response" /\ out.status_code = 401
\* the current call of c is a make_request whose first request came back 401
First401(c) == IsMakeRequest(c) /\ Len(log[c]) >= 1 /\ Is401(log[c][1].outcome)
\* ... and its refresh succeeded / failed
RefreshedOk(c) == First401(c) /\ Len(log[c]) >= 2 /\ log[c][2].ok
RefreshFailed(c) == First401(c) /\ Len(log[c]) >= 2 /\ ~log[c][2].ok
Last(L) == L[Len(L)]

\* C1: a finished make_request whose first request returned 401 and whose
\* refresh succeeded made exactly one refresh and exactly one retry (two
\* requests in all, the second with the same method and url); with a
\* token_updater supplied the callback ran exactly once, after the refresh
\* and before the retry, with the token the refresh returned; with none
\* supplied no callback ran.
C1_OneRefreshOneRetry ==
  \A c \in Callers :
    (pc[c] = "done" /\ RefreshedOk(c)) =>
      LET L == log[c] IN
      /\ Count(L, "refresh") = 1
      /\ Count(L, "request") = 2
      /\ L[1].kind = "request" /\ L[2].kind = "refresh" /\ Last(L).kind = "request"
      /\ Last(L).method = L[1].method /\ Last(L).url = L[1].url
      /\ IF refresh_callback
         THEN /\ Len(L) = 4
              /\ L[3].kind = "callback"
              /\ L[3].token = L[2].token
         ELSE Len(L) = 3 /\ Count(L, "callback") = 0

C1_Witness ==
  \E c \in Callers :
    /\ pc[c] = "done" /\ RefreshedOk(c) /\ refresh_callback
    /\ Len(log[c]) = 4 /\ log[c][3].kind = "callback"

\* C2: a make_request whose first request returned 401 and whose refresh
\* failed is over: the caller gets the refresh error, the failed refresh is
\* the last thing the call did, it issued one request only (no retry), and
\* the token_updater was not invoked.
C2_RefreshErrorSurfaces ==
  \A c \in Callers :
    RefreshFailed(c) =>
      /\ pc[c] = "done"
      /\ result[c] = Raised("refresh")
      /\ Len(log[c]) = 2
      /\ Count(log[c], "request") = 1
      /\ Count(log[c], "callback") = 0

C2_Witness ==
  \E c \in Callers : RefreshFailed(c) /\ pc[c] = "done" /\ refresh_callback

\* C3: every make_request issues at most two requests and at most one
\* refresh; once the retried request has its outcome the call is over and
\* that second outcome, a 401 included, is what the caller gets.
C3_AtMostTwoRequests ==
  \A c \in Callers :
    /\ Count(log[c], "request") <= 2
    /\ Count(log[c], "refresh") <= 1
    /\ Count(log[c], "request") = 2 =>
         /\ pc[c] = "done"
         /\ Last(log[c]).kind = "request"
         /\ result[c] = Last(log[c]).outcome

C3_Witness ==
  \E c \in Callers :
    /\ pc[c] = "done" /\ Count(log[c], "request") = 2
    /\ Is401(Last(log[c]).outcome) /\ result[c] = Response(401)

\* the step is one of caller c, starting a call
Starts(c) ==
  /\ pc[c] \in {"idle", "done"}
  /\ <<pc[c], call[c], log[c], result[c]>> # <<pc'[c], call'[c], log'[c], result'[c]>>

\* C4: a make_request whose first request gives anything but a 401 (a
\* success, another error status, a raised transport error) is over after
\* that one request, hands that outcome to the caller, and has made no
\* refresh and no callback; the step leaves the session token, the count of
\* granted tokens and the callback history as they were.
C4_State ==
  \A c \in Callers :
    (IsMakeRequest(c) /\ Len(log[c]) >= 1 /\ ~Is401(log[c][1].outcome)) =>
      /\ pc[c] = "done"
      /\ Len(log[c]) = 1
      /\ log[c][1].kind = "request"
      /\ result[c] = log[c][1].outcome

C4_Step ==
  \A c \in Callers :
    (Starts(c) /\ call'[c].op \in {"make_request", "make_request_v2"}
       /\ ~Is401(log'[c][1].outcome)) =>
      /\ token' = token
      /\ issued' = issued
      /\ updater_calls' = updater_calls

C4_Non401Surfaced == []C4_State /\ [][C4_Step]_vars

C4_Witness ==
  \E c, d \in Callers :
    /\ IsMakeRequest(c) /\ pc[c] = "done" /\ log[c][1].outcome = Response(500)
    /\ IsMakeRequest(d) /\ pc[d] = "done" /\ log[d][1].outcome = Raised("transport")
    /\ issued > 0

\* the access token a request must carry: the one of the latest grant, or
\* the constructor's when nothing was granted yet
LatestAccessToken == IF issued = 0 THEN given.access_token ELSE issued + 1

\* C9 (state): the session holds the latest token.
C9_State == token.access_token = LatestAccessToken

\* C9 (step): a request issued in this step carries the latest token.
C9_Step ==
  \A c \in Callers :
    (log'[c] # log[c] /\ Last(log'[c]).kind = "request") =>
      Last(log'[c]).token = LatestAccessToken

\* C9: after any sequence of operations the session's access token is the
\* one of the most recent successful refresh, or the constructor's if no
\* refresh succeeded, and every request issued carries that token.
C9_RequestsCarryLatestToken == []C9_State /\ [][C9_Step]_vars

C9_Witness ==
  \E c \in Callers :
    /\ pc[c] = "done" /\ RefreshedOk(c)
    /\ issued = 2 /\ Last(log[c]).token = 3 /\ log[c][1].token = 2

\* C10: nothing serializes refresh-and-retry.  When the current calls of
\* two callers both got a 401 for a request carrying the same token and
\* both have refreshed, each made its own refresh: two grants, with
\* different tokens, and with a token_updater two callback invocations.
C10_EachCallerRefreshes ==
  \A c, d \in Callers :
    (c # d /\ RefreshedOk(c) /\ RefreshedOk(d) /\ log[c][1].token = log[d][1].token) =>
      /\ log[c][2].token # log[d][2].token
      /\ issued >= 2
      /\ refresh_callback => Len(updater_calls) >= 2

C10_Witness ==
  \E c, d \in Callers :
    /\ c # d /\ RefreshedOk(c) /\ RefreshedOk(d)
    /\ log[c][1].token = log[d][1].token
    /\ refresh_callback /\ Len(updater_calls) = 2

\* ------------------------------------------------------------------------
\* Properties of revoke_token, PersonalRequestHandler and OuraOAuth2Client
\* ------------------------------------------------------------------------
\* C5: revoke_token of either handler issues exactly one request, a POST to
\* the revoke endpoint, and is over with whatever came back: on the OAuth
\* handler a 401 starts no refresh and no second request.
C5_RevokeIsOnePost ==
  /\ \A c \in Callers :
       call[c].op = "revoke_token" =>
         /\ pc[c] = "done"
         /\ Len(log[c]) = 1
         /\ log[c][1].kind = "request"
         /\ log[c][1].method = "POST"
         /\ log[c][1].url = TOKEN_REVOKE_URL
         /\ result[c] = log[c][1].outcome
  /\ p_call.op = "revoke_token" =>
       /\ Len(p_sent) = 1
       /\ p_sent[1].verb = "POST"
       /\ p_sent[1].url = TOKEN_REVOKE_URL
       /\ p_result \in Outcomes

C5_Witness ==
  /\ call["c1"].op = "revoke_token" /\ result["c1"] = Response(401) /\ issued > 0
  /\ p_call.op = "revoke_token" /\ p_result = Response(401)

\* C6: after any sequence of calls on a PersonalRequestHandler the token
\* held is the constructor's, every call has issued exactly one HTTP
\* request (as many requests as calls in all), and that request went to the
\* url of the call: never a refresh, never a retry.
C6_PersonalTokenStatic ==
  /\ personal_access_token = p_given
  /\ p_total = p_calls
  /\ p_calls > 0 =>
       /\ Len(p_sent) = 1
       /\ p_sent[1].url = p_call.url
       /\ p_sent[1].url # TOKEN_BASE_URL

C6_Witness ==
  /\ p_calls >= 3
  /\ p_result = Response(401)
  /\ p_call.op = "make_request"

\* the Authorization headers / access_token parameters of a request
HeaderValues(req, name) == {h[2] : h \in {x \in req.headers : x[1] = name}}
ParamValues(req, name) == {q[2] : q \in {x \in req.params : x[1] = name}}

\* C7: make_request sends the handler's token as the access_token query
\* parameter and no Authorization header; make_request_v2 sends the header
\* Authorization: Bearer <token> and no query parameter; so for one token
\* and url the two requests differ.
C7_TwoRequestShapes ==
  /\ p_call.op = "make_request" =>
       /\ ParamValues(p_sent[1], "access_token") = {p_given}
       /\ HeaderValues(p_sent[1], "Authorization") = {}
  /\ p_call.op = "make_request_v2" =>
       /\ HeaderValues(p_sent[1], "Authorization") = {<<"Bearer", " ", p_given>>}
       /\ p_sent[1].params = {}
  /\ \A url \in Urls, method \in Methods :
       /\ QueryStyleRequest(url, method) # BearerStyleRequest(url, method)
       /\ QueryStyleRequest(url, method).url = BearerStyleRequest(url, method).url

C7_Witness ==
  /\ p_call.op = "make_request_v2" /\ p_call.url = "/v2/a"
  /\ p_calls >= 2
  /\ p_result = Response(200)

\* the scope values that appear in the scope parameter of a url
UrlScopes(url) == {url.query["scope"][i] : i \in 1..Len(url.query["scope"])} \ {" "}
Values(l) == {l[i] : i \in 1..Len(l)}

\* C8: the url built by an authorize_endpoint call holds every scope value
\* passed to that call and no other; when the call leaves the scope out it
\* holds the eight default values, whatever scope earlier calls passed.
C8_ScopeInUrl ==
  a_call.op = "authorize_endpoint" =>
    IF a_call.scope.given /\ a_call.scope.value # <<>>
    THEN UrlScopes(a_url) = Values(a_call.scope.value)
    ELSE /\ a_url.query["scope"] = Join(SCOPE)
         /\ UrlScopes(a_url) = Values(SCOPE)
         /\ Cardinality(UrlScopes(a_url)) = 8

C8_Witness ==
  /\ a_call.op = "authorize_endpoint"
  /\ a_call.scope = Omitted
  /\ a_call.redirect_uri = None /\ session_redirect_uri # None
  /\ Cardinality(UrlScopes(a_url)) = 8

\* ------------------------------------------------------------------------
\* Properties of the token_updater callback
\* ------------------------------------------------------------------------
\* the token pair the n-th successful refresh returned
Granted(n) == [access_token |-> n + 1, refresh_token |-> n + 1]

\* C11 (state): with a token_updater supplied it has been invoked once per
\* successful refresh, the n-th time with the token the n-th refresh
\* returned; with none supplied nothing was invoked, and a call whose
\* refresh succeeded goes on to its retry all the same.
C11_State ==
  /\ refresh_callback =>
       /\ Len(updater_calls) = issued
       /\ \A n \in 1..Len(updater_calls) : updater_calls[n] = Granted(n)
  /\ ~refresh_callback =>
       /\ updater_calls = <<>>
       /\ \A c \in Callers :
            RefreshedOk(c) =>
              /\ pc[c] \in {"retry", "done"}
              /\ Count(log[c], "callback") = 0
              /\ pc[c] = "done" => (Len(log[c]) = 3 /\ log[c][3].kind = "request")

\* C11 (step): the token_updater is invoked only by a step that is a
\* successful refresh: not by a failed refresh, a request or revoke_token.
C11_Step ==
  updater_calls' # updater_calls =>
    /\ issued' = issued + 1
    /\ updater_calls' = Append(updater_calls, token')
    /\ \E c \in Callers : pc[c] = "refresh" /\ pc'[c] = "retry"

\* C11: token_updater invocations and successful refreshes correspond one
\* to one, each invocation with that refresh's token.
C11_CallbackPerRefresh == []C11_State /\ [][C11_Step]_vars

C11_Witness ==
  /\ refresh_callback
  /\ Len(updater_calls) = 2 /\ issued = 2
  /\ \E c, d \in Callers :
       /\ RefreshFailed(c) /\ pc[c] = "done"
       /\ call[d].op = "revoke_token" /\ pc[d] = "done"

\* ------------------------------------------------------------------------
\* Properties of the redirect uri and of the HTTP verb
\* ------------------------------------------------------------------------
\* the redirect uri a url carries, None when it carries none
UrlRedirect(url) ==
  IF "query" \in DOMAIN url /\ "redirect_uri" \in DOMAIN url.query
  THEN url.query["redirect_uri"][1] ELSE None

\* C12 (step): an authorize_endpoint call that passes a redirect uri builds
\* its url with it; a call that passes none builds its url with the
\* redirect uri of the url before it (none if there was none); the scope in
\* the url is this call's scope, or the defaults, never the one before.
C12_Step ==
  /\ UrlRedirect(a_url') =
       IF a_call'.redirect_uri \in RedirectUris
       THEN a_call'.redirect_uri ELSE UrlRedirect(a_url)
  /\ session_redirect_uri' = UrlRedirect(a_url')
  /\ session_scope' =
       IF a_call'.scope.given /\ a_call'.scope.value # <<>>
       THEN a_call'.scope.value ELSE SCOPE
  /\ a_url'.query["scope"] = Join(session_scope')

\* C12: the redirect uri is sticky across authorize_endpoint calls, the
\* scope is assigned anew by every call.
C12_RedirectSticky == [][C12_Step]_vars

C12_Witness ==
  /\ a_call.op = "authorize_endpoint"
  /\ a_call.redirect_uri = ""
  /\ UrlRedirect(a_url) = "https://b/cb"
  /\ a_call.scope = Given(<<"custom">>)
  /\ session_scope = <<"custom">>
\* C13: make_request and make_request_v2 of PersonalRequestHandler issue a
\* POST exactly when the method argument is "POST", and a GET for every
\* other value: "GET", other verbs such as "PUT" and "DELETE", and "post".
C13_PostOrGet ==
  (p_calls > 0 /\ p_call.op \in {"make_request", "make_request_v2"}) =>
    /\ p_sent[1].verb \in {"GET", "POST"}
    /\ p_sent[1].verb = "POST" <=> p_call.method = "POST"
    /\ p_call.method \in {"GET", "PUT", "DELETE", "post"} => p_sent[1].verb = "GET"

C13_Witness ==
  /\ p_calls > 0
  /\ p_call.op = "make_request_v2"
  /\ p_call.method = "DELETE"
  /\ p_sent[1].verb = "GET"

\* ------------------------------------------------------------------------
\* make_request_v2 against make_request on OAuthRequestHandler
\* ------------------------------------------------------------------------
\* C14 (step): a step that starts make_request_v2(url, method) does what
\* make_request(url, method) does from the same state with the same server
\* response: the same single request carrying the session's token, a
\* refresh to follow exactly when the response is a 401, otherwise the
\* outcome handed to the caller; token state and callback history untouched.
C14_Step ==
  \A c \in Callers :
    (Starts(c) /\ call'[c].op = "make_request_v2") =>
      \E out \in Outcomes :
        /\ log'[c] = <<RequestEvent(call'[c].method, call'[c].url, out)>>
        /\ pc'[c] = (IF Is401(out) THEN "refresh" ELSE "done")
        /\ result'[c] = (IF Is401(out) THEN [kind |-> None] ELSE out)
        /\ \E url \in OAuthUrls, method \in OAuthMethods :
             /\ url = call'[c].url /\ method = call'[c].method
             /\ ENABLED MakeRequestFirst(c, "make_request", url, method, out)
        /\ <<token', given', issued', updater_calls'>> = <<token, given, issued, updater_calls>>

\* C14 (state): what follows the first request does not depend on which of
\* the two methods was called: a call of either that got a 401 refreshes,
\* and a finished call of either has the shape of a make_request call
\* (one request; or request, failed refresh; or request, refresh, callback
\* if supplied, retry) and hands over its last outcome.
C14_State ==
  \A c \in Callers :
    IsMakeRequest(c) =>
      /\ pc[c] = "refresh" <=> (Len(log[c]) = 1 /\ Is401(log[c][1].outcome))
      /\ pc[c] = "retry" <=> (RefreshedOk(c) /\ Last(log[c]).kind # "request")
      /\ pc[c] = "done" =>
           \/ Len(log[c]) = 1 /\ ~Is401(log[c][1].outcome) /\ result[c] = log[c][1].outcome
           \/ RefreshFailed(c) /\ Len(log[c]) = 2 /\ result[c] = Raised("refresh")
           \/ /\ RefreshedOk(c)
              /\ Len(log[c]) = (IF refresh_callback THEN 4 ELSE 3)
              /\ Last(log[c]).kind = "request"
              /\ Last(log[c]).method = call[c].method
              /\ Last(log[c]).url = call[c].url
              /\ result[c] = Last(log[c]).outcome

\* C14: on OAuthRequestHandler make_request_v2 behaves as make_request.
C14_V2AsMakeRequest == []C14_State /\ [][C14_Step]_vars

C14_Witness ==
  \E c, d \in Callers :
    /\ call[c].op = "make_request" /\ call[d].op = "make_request_v2"
    /\ pc[c] = "done" /\ pc[d] = "done"
    /\ RefreshedOk(c) /\ RefreshedOk(d)
    /\ call[c].method = call[d].method
    /\ Len(log[c]) = Len(log[d])
    /\ result[c] = result[d] /\ result[c] = Response(200)

====
